---- MODULE Spec2Model ----
(***************************************************************************)
(* State-machine model of extract_text_model.py: the extraction of the     *)
(* language-model tensors of a sharded Qwen3-VL checkpoint into a          *)
(* text-only checkpoint (create_text_config, extract_text_weights,         *)
(* save_text_model, main).                                                 *)
(*                                                                         *)
(* Tensor names are sequences of tokens; a token is a dot-free word or the *)
(* separator ".", and plays the part of a character: startswith is the     *)
(* prefix test on the sequence, a slice drops the leading tokens and "+"   *)
(* is concatenation.  Decimal literals of the configuration are kept as    *)
(* their JSON text.                                                        *)
(***************************************************************************)
EXTENDS Integers, Sequences, FiniteSets, TLC

VARIABLES
  pc,                \* position of main in the program
  phase,             \* last phase banner printed by main ("[k/3]"), 0 before
  status,            \* exit status of the process, -1 while it runs
  error,             \* the uncaught exception that ended the run, or "none"
  vlDirExists,       \* VL_MODEL_DIR.exists()
  vlConfigFile,      \* VL_MODEL_DIR / "config.json"
  indexFile,         \* VL_MODEL_DIR / "model.safetensors.index.json"
  shardFiles,        \* shard file name -> what is on disk under it
  auxFiles,          \* tokenizer file name -> "absent" | "file" | "dir"
  diskFull,          \* the device cannot hold the tensor container
  outExists,         \* TEXT_MODEL_DIR exists
  outFiles,          \* the files TEXT_MODEL_DIR holds
  config,            \* main's config (result of create_text_config)
  weight_map,        \* extract_text_weights: ordered name -> shard mapping
  text_weight_names, \* extract_text_weights: the kept names, in order
  weights_by_shard,  \* extract_text_weights: ordered shard -> names mapping
  all_text_weights,  \* extract_text_weights: the OrderedDict being built
  si,                \* position of the loop over weights_by_shard.items()
  wi,                \* position of the loop over weight_names
  opens,             \* shard file name -> times safe_open opened it
  closes             \* shard file name -> times its handle was closed

vars == <<pc, phase, status, error, vlDirExists, vlConfigFile, indexFile,
          shardFiles, auxFiles, diskFull, outExists, outFiles, config,
          weight_map, text_weight_names, weights_by_shard, all_text_weights,
          si, wi, opens, closes>>

inputVars == <<vlDirExists, vlConfigFile, indexFile, shardFiles, auxFiles,
               diskFull>>

outVars == <<outExists, outFiles>>

extractVars == <<weight_map, text_weight_names, weights_by_shard,
                 all_text_weights, si, wi, opens, closes>>

(***************************************************************************)
(* Bounds of the model.                                                    *)
(***************************************************************************)
MaxEntries == 3   \* entries of the weight map
MaxSrcKeys == 2   \* keys of the source "text_config" sub-document
MaxAux == 1       \* tokenizer files present in the input directory

(***************************************************************************)
(* Names.                                                                  *)
(***************************************************************************)
Dot == "."

\* "model.language_model."
LANGUAGE_MODEL_PREFIX == <<"model", Dot, "language_model", Dot>>

\* "model."
MODEL_PREFIX == <<"model", Dot>>

\* "lm_head.weight"
LM_HEAD_WEIGHT == <<"lm_head", Dot, "weight">>

NameUniverse ==
  { <<"model", Dot, "language_model", Dot, "norm", Dot, "weight">>,
    <<"model", Dot, "language_model", Dot, "lm_head", Dot, "weight">>,
    <<"model", Dot, "language_model", Dot>>,
    <<"lm_head", Dot, "weight">>,
    <<"model", Dot, "visual", Dot, "weight">>,
    <<"visual", Dot, "model", Dot, "language_model", Dot, "weight">>,
    <<"model", Dot, "norm", Dot, "weight">> }

Shards == {"model-00001.safetensors", "model-00002.safetensors"}

\* str.startswith
StartsWith(s, p) == Len(s) >= Len(p) /\ SubSeq(s, 1, Len(p)) = p

\* s[n:]
SliceFrom(s, n) == SubSeq(s, n + 1, Len(s))

\* the condition under which a name is appended to text_weight_names
Keep_anywhere(weight_name) ==
  \/ \E i \in 0..Len(weight_name) :
       StartsWith(SliceFrom(weight_name, i), LANGUAGE_MODEL_PREFIX)
  \/ weight_name = LM_HEAD_WEIGHT

Keep(weight_name) ==
  \/ StartsWith(weight_name, LANGUAGE_MODEL_PREFIX)
  \/ weight_name = LM_HEAD_WEIGHT

\* new_name of a kept weight_name
Rename_strip(weight_name) ==
  IF StartsWith(weight_name, LANGUAGE_MODEL_PREFIX)
    THEN SliceFrom(weight_name, Len(LANGUAGE_MODEL_PREFIX))
    ELSE weight_name

Rename(weight_name) ==
  IF StartsWith(weight_name, LANGUAGE_MODEL_PREFIX)
    THEN MODEL_PREFIX \o SliceFrom(weight_name, Len(LANGUAGE_MODEL_PREFIX))
    ELSE weight_name

(***************************************************************************)
(* Ordered mappings (dict, OrderedDict) are sequences of entries with      *)
(* distinct keys, in insertion order.                                      *)
(***************************************************************************)
MapKeys(wm) == [i \in 1..Len(wm) |-> wm[i][1]]

\* weight_map[weight_name]
ShardOf(wm, weight_name) ==
  wm[CHOOSE i \in 1..Len(wm) : wm[i][1] = weight_name][2]

\* the loop over weight_map.items() that fills text_weight_names
TextWeightNames(wm) == SelectSeq(MapKeys(wm), Keep)

GroupIndex(groups, shard) ==
  CHOOSE i \in 1..Len(groups) : groups[i].shard = shard

\* one iteration of the grouping loop
AddToGroup_front(groups, shard, weight_name) ==
  IF \E i \in 1..Len(groups) : groups[i].shard = shard
    THEN [groups EXCEPT ![GroupIndex(groups, shard)].names =
                           Append(@, weight_name)]
    ELSE <<[shard |-> shard, names |-> <<weight_name>>]>> \o groups

AddToGroup(groups, shard, weight_name) ==
  IF \E i \in 1..Len(groups) : groups[i].shard = shard
    THEN [groups EXCEPT ![GroupIndex(groups, shard)].names =
                           Append(@, weight_name)]
    ELSE Append(groups, [shard |-> shard, names |-> <<weight_name>>])

RECURSIVE GroupLoop(_, _, _)
GroupLoop(wm, names, groups) ==
  IF names = <<>> THEN groups
  ELSE GroupLoop(wm, Tail(names),
                 AddToGroup(groups, ShardOf(wm, Head(names)), Head(names)))

\* the loop that fills weights_by_shard
WeightsByShard(wm, names) == GroupLoop(wm, names, <<>>)

\* all_text_weights[new_name] = tensor
SetItem(d, key, tensor) ==
  IF \E i \in 1..Len(d) : d[i].name = key
    THEN [d EXCEPT ![CHOOSE i \in 1..Len(d) : d[i].name = key].tensor = tensor]
    ELSE Append(d, [name |-> key, tensor |-> tensor])

\* what f.get_tensor(weight_name) returns for a tensor the shard holds
Payload(shard, weight_name) == [shard |-> shard, source |-> weight_name]

(***************************************************************************)
(* Documents.  None is the Python value of a JSON null and of a dict.get   *)
(* without default on a missing key.                                       *)
(***************************************************************************)
EmptyDict == <<>>

None == [py |-> "None"]

\* d.get(key, default)
Get(d, key, default) == IF key \in DOMAIN d THEN d[key] ELSE default

\* the dict literal of create_text_config
TextConfig_merge(text_cfg) ==
  [ architectures           |-> <<"Qwen3ForCausalLM">>,
    attention_bias          |-> Get(text_cfg, "attention_bias", FALSE),
    attention_dropout       |-> Get(text_cfg, "attention_dropout", "0.0"),
    bos_token_id            |-> Get(text_cfg, "bos_token_id", 151643),
    eos_token_id            |-> Get(text_cfg, "eos_token_id", 151645),
    head_dim                |-> Get(text_cfg, "head_dim", 128),
    hidden_act              |-> Get(text_cfg, "hidden_act", "silu"),
    hidden_size             |-> Get(text_cfg, "hidden_size", 4096),
    initializer_range       |-> Get(text_cfg, "initializer_range", "0.02"),
    intermediate_size       |-> Get(text_cfg, "intermediate_size", 12288),
    max_position_embeddings |-> Get(text_cfg, "max_position_embeddings", 40960),
    model_type              |-> "qwen3",
    num_attention_heads     |-> Get(text_cfg, "num_attention_heads", 32),
    num_hidden_layers       |-> Get(text_cfg, "num_hidden_layers", 36),
    num_key_value_heads     |-> Get(text_cfg, "num_key_value_heads", 8),
    rms_norm_eps            |-> Get(text_cfg, "rms_norm_eps", "1e-06"),
    rope_scaling            |-> Get(text_cfg, "rope_scaling", None),
    rope_theta              |-> Get(text_cfg, "rope_theta", 1000000),
    tie_word_embeddings     |-> FALSE,
    torch_dtype             |-> "bfloat16",
    transformers_version    |-> "4.51.0",
    use_cache               |-> TRUE,
    vocab_size              |-> Get(text_cfg, "vocab_size", 151936),
    use_sliding_window      |-> FALSE ] @@ text_cfg

TextConfig_tied(text_cfg) ==
  [ architectures           |-> <<"Qwen3ForCausalLM">>,
    attention_bias          |-> Get(text_cfg, "attention_bias", FALSE),
    attention_dropout       |-> Get(text_cfg, "attention_dropout", "0.0"),
    bos_token_id            |-> Get(text_cfg, "bos_token_id", 151643),
    eos_token_id            |-> Get(text_cfg, "eos_token_id", 151645),
    head_dim                |-> Get(text_cfg, "head_dim", 128),
    hidden_act              |-> Get(text_cfg, "hidden_act", "silu"),
    hidden_size             |-> Get(text_cfg, "hidden_size", 4096),
    initializer_range       |-> Get(text_cfg, "initializer_range", "0.02"),
    intermediate_size       |-> Get(text_cfg, "intermediate_size", 12288),
    max_position_embeddings |-> Get(text_cfg, "max_position_embeddings", 40960),
    model_type              |-> "qwen3",
    num_attention_heads     |-> Get(text_cfg, "num_attention_heads", 32),
    num_hidden_layers       |-> Get(text_cfg, "num_hidden_layers", 36),
    num_key_value_heads     |-> Get(text_cfg, "num_key_value_heads", 8),
    rms_norm_eps            |-> Get(text_cfg, "rms_norm_eps", "1e-06"),
    rope_scaling            |-> Get(text_cfg, "rope_scaling", None),
    rope_theta              |-> Get(text_cfg, "rope_theta", 1000000),
    tie_word_embeddings     |-> Get(text_cfg, "tie_word_embeddings", FALSE),
    torch_dtype             |-> "bfloat16",
    transformers_version    |-> "4.51.0",
    use_cache               |-> TRUE,
    vocab_size              |-> Get(text_cfg, "vocab_size", 151936),
    use_sliding_window      |-> FALSE ]

TextConfig(text_cfg) ==
  [ architectures           |-> <<"Qwen3ForCausalLM">>,
    attention_bias          |-> Get(text_cfg, "attention_bias", FALSE),
    attention_dropout       |-> Get(text_cfg, "attention_dropout", "0.0"),
    bos_token_id            |-> Get(text_cfg, "bos_token_id", 151643),
    eos_token_id            |-> Get(text_cfg, "eos_token_id", 151645),
    head_dim                |-> Get(text_cfg, "head_dim", 128),
    hidden_act              |-> Get(text_cfg, "hidden_act", "silu"),
    hidden_size             |-> Get(text_cfg, "hidden_size", 4096),
    initializer_range       |-> Get(text_cfg, "initializer_range", "0.02"),
    intermediate_size       |-> Get(text_cfg, "intermediate_size", 12288),
    max_position_embeddings |-> Get(text_cfg, "max_position_embeddings", 40960),
    model_type              |-> "qwen3",
    num_attention_heads     |-> Get(text_cfg, "num_attention_heads", 32),
    num_hidden_layers       |-> Get(text_cfg, "num_hidden_layers", 36),
    num_key_value_heads     |-> Get(text_cfg, "num_key_value_heads", 8),
    rms_norm_eps            |-> Get(text_cfg, "rms_norm_eps", "1e-06"),
    rope_scaling            |-> Get(text_cfg, "rope_scaling", None),
    rope_theta              |-> Get(text_cfg, "rope_theta", 1000000),
    tie_word_embeddings     |-> FALSE,
    torch_dtype             |-> "bfloat16",
    transformers_version    |-> "4.51.0",
    use_cache               |-> TRUE,
    vocab_size              |-> Get(text_cfg, "vocab_size", 151936),
    use_sliding_window      |-> FALSE ]

\* gen_config of save_text_model
GenConfig(cfg) ==
  [ bos_token_id       |-> cfg["bos_token_id"],
    eos_token_id       |-> cfg["eos_token_id"],
    do_sample          |-> TRUE,
    temperature        |-> "0.7",
    top_p              |-> "0.8",
    top_k              |-> 20,
    repetition_penalty |-> "1.05" ]

\* tokenizer_files of save_text_model
tokenizer_files ==
  <<"tokenizer.json", "tokenizer_config.json", "vocab.json", "merges.txt",
    "special_tokens_map.json", "added_tokens.json">>

\* the loop that copies the tokenizer files: src.exists() holds of a file and
\* of a directory, and shutil.copy raises on a directory
RECURSIVE CopyLoop(_, _, _)
CopyLoop(tfs, aux, out) ==
  IF tfs = <<>> THEN [files |-> out, raised |-> FALSE]
  ELSE IF aux[Head(tfs)] = "absent" THEN CopyLoop(Tail(tfs), aux, out)
  ELSE IF aux[Head(tfs)] = "dir" THEN [files |-> out, raised |-> TRUE]
  ELSE CopyLoop(Tail(tfs), aux,
                (Head(tfs) :> [copy_of |-> Head(tfs)]) @@ out)

\* open(path, 'w') and json.dump, save_file: the file is created or replaced
WriteFile(out, name, content) == (name :> content) @@ out

(***************************************************************************)
(* The inputs a run may find on disk.                                      *)
(***************************************************************************)
\* weight maps: dicts of at most MaxEntries names, in every order
WeightMaps ==
  UNION { { wm \in [1..k -> NameUniverse \X Shards] :
              \A i, j \in 1..k : wm[i][1] = wm[j][1] => i = j } :
          k \in 0..MaxEntries }

\* the index of the scenario of the specification
ScenarioWeightMap ==
  << <<<<"model", Dot, "language_model", Dot, "norm", Dot, "weight">>,
       "model-00001.safetensors">>,
     <<<<"model", Dot, "visual", Dot, "weight">>, "model-00001.safetensors">>,
     <<LM_HEAD_WEIGHT, "model-00002.safetensors">> >>

IndexDoc(wm) == [kind |-> "doc", doc |-> [metadata |-> "m", weight_map |-> wm]]

IndexDocNoWeightMap == [kind |-> "doc", doc |-> [metadata |-> "m"]]

\* the names the index promises to be in a shard
Promised(wm, shard) == {wm[i][1] : i \in {j \in 1..Len(wm) : wm[j][2] = shard}}

\* a checkpoint on disk that agrees with its index
SoundShards(wm) ==
  [s \in Shards |-> [exists |-> TRUE, tensors |-> Promised(wm, s)]]

\* the checkpoints on disk that differ from a sound one in at most one place:
\* one shard file is absent, or one tensor is not in the shard that the index
\* names for it
ShardStates(wm) ==
  {SoundShards(wm)}
  \cup {[SoundShards(wm) EXCEPT ![s] = [exists |-> FALSE, tensors |-> {}]] :
          s \in Shards}
  \cup {[SoundShards(wm) EXCEPT ![wm[i][2]].tensors = @ \ {wm[i][1]}] :
          i \in 1..Len(wm)}

SrcKeys ==
  {"rope_theta", "rope_scaling", "tie_word_embeddings", "use_sliding_window",
   "model_type", "torch_dtype", "architectures", "dtype"}

\* the values a source sub-document gives to a key
SrcValue(k, v) ==
  CASE k = "rope_theta" -> IF v = 1 THEN 5000000 ELSE 1000000
    [] k = "rope_scaling" ->
         IF v = 1 THEN [py |-> "dict", rope_type |-> "default"] ELSE None
    [] k = "tie_word_embeddings" -> (v = 1)
    [] k = "use_sliding_window" -> (v = 1)
    [] k = "model_type" -> IF v = 1 THEN "qwen3_vl_text" ELSE "qwen3"
    [] k = "torch_dtype" -> IF v = 1 THEN "float16" ELSE "bfloat16"
    [] k = "architectures" ->
         IF v = 1 THEN <<"Qwen3VLForConditionalGeneration">>
                  ELSE <<"Qwen3ForCausalLM">>
    [] k = "dtype" -> IF v = 1 THEN "float16" ELSE "bfloat16"

\* the "text_config" sub-documents with at most MaxSrcKeys keys
TextCfgs ==
  UNION { {[k \in K |-> SrcValue(k, c[k])] : c \in [K -> 1..2]} :
          K \in {S \in SUBSET SrcKeys : Cardinality(S) <= MaxSrcKeys} }

\* the source configuration documents: "text_config" absent, null or a dict
VlConfigs ==
  {[model_type |-> "qwen3_vl"]}
  \cup {[model_type |-> "qwen3_vl", text_config |-> None]}
  \cup {[model_type |-> "qwen3_vl",
         text_config |-> [py |-> "dict", items |-> t]] : t \in TextCfgs}

ConfigFile(doc) == [kind |-> "file", doc |-> doc]

ScenarioConfigFile ==
  ConfigFile([model_type |-> "qwen3_vl",
              text_config |-> [py |-> "dict",
                               items |-> [rope_theta |-> 5000000]]])

NoAux == [tf \in {tokenizer_files[i] : i \in 1..Len(tokenizer_files)} |-> "absent"]

\* the tokenizer files of the input directory: at most MaxAux are present,
\* each as a file or as a directory of that name
AuxStates ==
  { a \in [DOMAIN NoAux -> {"absent", "file", "dir"}] :
      Cardinality({tf \in DOMAIN NoAux : a[tf] # "absent"}) <= MaxAux }

\* the artifact set of a complete output directory
Artifacts == {"config.json", "model.safetensors", "generation_config.json"}

\* an output directory left by an earlier, complete run
PreviousOutput == [f \in Artifacts |-> "previous"]

TypeOK ==
  /\ pc \in {"main", "create_text_config", "read_index", "filter", "group",
             "shard_loop", "get_tensor", "close_shard", "mkdir",
             "save_config", "save_weights", "copy_tokenizer",
             "save_gen_config", "done"}
  /\ phase \in 0..3
  /\ status \in {-1, 0, 1}

(***************************************************************************)
(* The program.                                                            *)
(***************************************************************************)
\* state of a fresh process
Fresh ==
  /\ pc = "main"
  /\ phase = 0
  /\ status = -1
  /\ error = "none"
  /\ config = EmptyDict
  /\ weight_map = <<>>
  /\ text_weight_names = <<>>
  /\ weights_by_shard = <<>>
  /\ all_text_weights = <<>>
  /\ si = 0
  /\ wi = 0
  /\ opens = [s \in Shards |-> 0]
  /\ closes = [s \in Shards |-> 0]

\* checkpoints of every shape, with a sound configuration and output device
Init ==
  /\ Fresh
  /\ vlDirExists = TRUE
  /\ vlConfigFile = ScenarioConfigFile
  /\ \E wm \in WeightMaps :
       /\ indexFile = IndexDoc(wm)
       /\ shardFiles \in ShardStates(wm)
  /\ auxFiles = NoAux
  /\ diskFull = FALSE
  /\ outExists = FALSE
  /\ outFiles = EmptyDict

\* source configuration documents of every shape, scenario checkpoint
InitConfig ==
  /\ Fresh
  /\ vlDirExists = TRUE
  /\ vlConfigFile \in {ConfigFile(d) : d \in VlConfigs}
  /\ indexFile = IndexDoc(ScenarioWeightMap)
  /\ shardFiles = SoundShards(ScenarioWeightMap)
  /\ auxFiles = NoAux
  /\ diskFull = FALSE
  /\ outExists = FALSE
  /\ outFiles = EmptyDict

\* input and output directories of every shape, scenario checkpoint
InitRun ==
  /\ Fresh
  /\ vlDirExists \in BOOLEAN
  /\ vlConfigFile \in {[kind |-> "absent"], [kind |-> "malformed"],
                       ScenarioConfigFile}
  /\ indexFile \in {[kind |-> "absent"], [kind |-> "malformed"],
                    IndexDocNoWeightMap, IndexDoc(ScenarioWeightMap)}
  /\ shardFiles \in ShardStates(ScenarioWeightMap)
  /\ auxFiles \in AuxStates
  /\ diskFull \in BOOLEAN
  /\ \/ outExists = FALSE /\ outFiles = EmptyDict
     \/ outExists = TRUE /\ outFiles = PreviousOutput
  \* nothing is in a directory that does not exist
  /\ ~vlDirExists =>
       /\ vlConfigFile.kind = "absent"
       /\ indexFile.kind = "absent"
       /\ \A s \in Shards : ~shardFiles[s].exists
       /\ auxFiles = NoAux

\* sound scenario checkpoint, tokenizer files and output device of every shape
InitSave ==
  /\ Fresh
  /\ vlDirExists = TRUE
  /\ vlConfigFile = ScenarioConfigFile
  /\ indexFile = IndexDoc(ScenarioWeightMap)
  /\ shardFiles = SoundShards(ScenarioWeightMap)
  /\ auxFiles \in AuxStates
  /\ diskFull \in BOOLEAN
  /\ \/ outExists = FALSE /\ outFiles = EmptyDict
     \/ outExists = TRUE /\ outFiles = PreviousOutput

\* return 1
Return1 ==
  /\ pc' = "done"
  /\ status' = 1
  /\ error' = "none"

\* an exception that nothing catches ends the process with status 1
Raise(e) ==
  /\ pc' = "done"
  /\ status' = 1
  /\ error' = e

\* main up to the first phase banner
MainCheckInput_noconfigcheck ==
  /\ pc = "main"
  /\ IF ~vlDirExists
       THEN Return1 /\ UNCHANGED phase
       ELSE /\ pc' = "create_text_config"
            /\ phase' = 1
            /\ UNCHANGED <<status, error>>
  /\ UNCHANGED <<inputVars, outVars, config, extractVars>>

MainCheckInput ==
  /\ pc = "main"
  /\ IF ~vlDirExists
       THEN Return1 /\ UNCHANGED phase
       ELSE IF vlConfigFile.kind = "absent"
         THEN Return1 /\ UNCHANGED phase
         ELSE /\ pc' = "create_text_config"
              /\ phase' = 1
              /\ UNCHANGED <<status, error>>
  /\ UNCHANGED <<inputVars, outVars, config, extractVars>>

\* create_text_config, and main up to the second phase banner
CreateTextConfig ==
  /\ pc = "create_text_config"
  /\ IF vlConfigFile.kind = "absent"
       THEN Raise("FileNotFoundError") /\ UNCHANGED <<phase, config>>
     ELSE IF vlConfigFile.kind = "malformed"
       THEN Raise("JSONDecodeError") /\ UNCHANGED <<phase, config>>
     ELSE LET vl_config == vlConfigFile.doc
              text_cfg == Get(vl_config, "text_config",
                              [py |-> "dict", items |-> EmptyDict])
          IN IF text_cfg.py # "dict"
               THEN Raise("AttributeError") /\ UNCHANGED <<phase, config>>
               ELSE /\ config' = TextConfig(text_cfg.items)
                    /\ phase' = 2
                    /\ pc' = "read_index"
                    /\ UNCHANGED <<status, error>>
  /\ UNCHANGED <<inputVars, outVars, extractVars>>

\* extract_text_weights: the index is read and its weight map taken
ReadIndex ==
  /\ pc = "read_index"
  /\ IF indexFile.kind = "absent"
       THEN Raise("FileNotFoundError") /\ UNCHANGED weight_map
     ELSE IF indexFile.kind = "malformed"
       THEN Raise("JSONDecodeError") /\ UNCHANGED weight_map
     ELSE /\ weight_map' = Get(indexFile.doc, "weight_map", <<>>)
          /\ pc' = "filter"
          /\ UNCHANGED <<status, error>>
  /\ UNCHANGED <<phase, inputVars, outVars, config, text_weight_names,
                 weights_by_shard, all_text_weights, si, wi, opens, closes>>

\* extract_text_weights: the text weights are identified
FilterWeights ==
  /\ pc = "filter"
  /\ text_weight_names' = TextWeightNames(weight_map)
  /\ pc' = "group"
  /\ UNCHANGED <<phase, status, error, inputVars, outVars, config, weight_map,
                 weights_by_shard, all_text_weights, si, wi, opens, closes>>

\* extract_text_weights: the kept names are grouped by source shard
GroupWeights ==
  /\ pc = "group"
  /\ weights_by_shard' = WeightsByShard(weight_map, text_weight_names)
  /\ all_text_weights' = <<>>
  /\ si' = 1
  /\ pc' = "shard_loop"
  /\ UNCHANGED <<phase, status, error, inputVars, outVars, config, weight_map,
                 text_weight_names, wi, opens, closes>>

\* extract_text_weights: the next shard is opened; the loop over the shards
\* ends when none is left, and main prints the third phase banner
OpenShard ==
  /\ pc = "shard_loop"
  /\ IF si > Len(weights_by_shard)
       THEN /\ pc' = "mkdir"
            /\ phase' = 3
            /\ UNCHANGED <<status, error, wi, opens>>
     ELSE IF ~shardFiles[weights_by_shard[si].shard].exists
       THEN Raise("FileNotFoundError") /\ UNCHANGED <<phase, wi, opens>>
     ELSE /\ opens' = [opens EXCEPT ![weights_by_shard[si].shard] = @ + 1]
          /\ wi' = 1
          /\ pc' = "get_tensor"
          /\ UNCHANGED <<phase, status, error>>
  /\ UNCHANGED <<inputVars, outVars, config, weight_map, text_weight_names,
                 weights_by_shard, all_text_weights, si, closes>>

\* the handle of the with statement is released
Release(cl, shard) == [cl EXCEPT ![shard] = @ + 1]

\* what the with statement does to the handle when its body raises
ReleaseOnError_leak(cl, shard) == cl

ReleaseOnError(cl, shard) == Release(cl, shard)

\* extract_text_weights: one tensor is read from the open shard, renamed and
\* stored; a failed read leaves the with statement
GetTensor ==
  /\ pc = "get_tensor"
  /\ LET shard_name == weights_by_shard[si].shard
         weight_names == weights_by_shard[si].names
         weight_name == weight_names[wi]
     IN IF weight_name \notin shardFiles[shard_name].tensors
          THEN /\ Raise("SafetensorError")
               /\ closes' = ReleaseOnError(closes, shard_name)
               /\ UNCHANGED <<all_text_weights, wi>>
          ELSE /\ all_text_weights' =
                    SetItem(all_text_weights, Rename(weight_name),
                            Payload(shard_name, weight_name))
               /\ IF wi < Len(weight_names)
                    THEN wi' = wi + 1 /\ pc' = "get_tensor"
                    ELSE wi' = wi /\ pc' = "close_shard"
               /\ UNCHANGED <<status, error, closes>>
  /\ UNCHANGED <<phase, inputVars, outVars, config, weight_map,
                 text_weight_names, weights_by_shard, si, opens>>

\* extract_text_weights: the with statement ends and the shard is closed
CloseShard ==
  /\ pc = "close_shard"
  /\ closes' = Release(closes, weights_by_shard[si].shard)
  /\ si' = si + 1
  /\ pc' = "shard_loop"
  /\ UNCHANGED <<phase, status, error, inputVars, outVars, config, weight_map,
                 text_weight_names, weights_by_shard, all_text_weights, wi,
                 opens>>

\* save_text_model: TEXT_MODEL_DIR.mkdir(exist_ok=True)
MakeOutputDir ==
  /\ pc = "mkdir"
  /\ outExists' = TRUE
  /\ pc' = "save_config"
  /\ UNCHANGED <<phase, status, error, inputVars, outFiles, config,
                 extractVars>>

\* save_text_model: config.json is written
SaveConfig ==
  /\ pc = "save_config"
  /\ outFiles' = WriteFile(outFiles, "config.json", config)
  /\ pc' = "save_weights"
  /\ UNCHANGED <<phase, status, error, inputVars, outExists, config,
                 extractVars>>

\* save_text_model: save_file writes the tensor container
SaveWeights ==
  /\ pc = "save_weights"
  /\ IF diskFull
       THEN Raise("OSError") /\ UNCHANGED outFiles
       ELSE /\ outFiles' = WriteFile(outFiles, "model.safetensors",
                                     all_text_weights)
            /\ pc' = "copy_tokenizer"
            /\ UNCHANGED <<status, error>>
  /\ UNCHANGED <<phase, inputVars, outExists, config, extractVars>>

\* save_text_model: the tokenizer files that exist are copied
CopyTokenizer ==
  /\ pc = "copy_tokenizer"
  /\ LET r == CopyLoop(tokenizer_files, auxFiles, outFiles)
     IN /\ outFiles' = r.files
        /\ IF r.raised
             THEN Raise("IsADirectoryError")
             ELSE pc' = "save_gen_config" /\ UNCHANGED <<status, error>>
  /\ UNCHANGED <<phase, inputVars, outExists, config, extractVars>>

\* save_text_model: generation_config.json is written, and main returns 0
SaveGenConfig ==
  /\ pc = "save_gen_config"
  /\ outFiles' = WriteFile(outFiles, "generation_config.json",
                           GenConfig(config))
  /\ pc' = "done"
  /\ status' = 0
  /\ UNCHANGED <<phase, error, inputVars, outExists, config, extractVars>>

Next ==
  \/ MainCheckInput
  \/ CreateTextConfig
  \/ ReadIndex
  \/ FilterWeights
  \/ GroupWeights
  \/ OpenShard
  \/ GetTensor
  \/ CloseShard
  \/ MakeOutputDir
  \/ SaveConfig
  \/ SaveWeights
  \/ CopyTokenizer
  \/ SaveGenConfig

Spec == Init /\ [][Next]_vars

SpecConfig == InitConfig /\ [][Next]_vars

SpecRun == InitRun /\ [][Next]_vars

SpecSave == InitSave /\ [][Next]_vars

(***************************************************************************)
(* Properties.                                                             *)
(***************************************************************************)
\* the values of a sequence
Range(s) == {s[i] : i \in 1..Len(s)}

\* the tails of a name, the empty one included
Suffixes(n) == {SubSeq(n, k, Len(n)) : k \in 1..(Len(n) + 1)}

\* the names of the weight map once extract_text_weights has filtered it
FilteredNames ==
  IF pc \in {"main", "create_text_config", "read_index", "filter"}
    THEN {} ELSE Range(MapKeys(weight_map))

\* position of a name in the weight map
IndexPos(n) == CHOOSE k \in 1..Len(weight_map) : weight_map[k][1] = n

\* position in the weight map of the first kept tensor of a shard
FirstKept(shard) ==
  CHOOSE k \in 1..Len(weight_map) :
    /\ weight_map[k][2] = shard
    /\ weight_map[k][1] \in Range(text_weight_names)
    /\ \A m \in 1..(k - 1) :
         ~(weight_map[m][2] = shard /\ weight_map[m][1] \in Range(text_weight_names))

\* tensors stored by the iterations of the extraction loops done so far
StoredSoFar ==
  LET before == {j \in 1..Len(weights_by_shard) : j < si}
      RECURSIVE Sum(_)
      Sum(S) == IF S = {} THEN 0
                ELSE LET j == CHOOSE x \in S : TRUE
                     IN Len(weights_by_shard[j].names) + Sum(S \ {j})
  IN Sum(before) + (IF pc = "get_tensor" THEN wi - 1
                    ELSE IF pc = "close_shard" THEN wi ELSE 0)

\* C1: a name of the weight map is kept if and only if it is the prefix
\* "model.language_model." followed by some remainder, or is "lm_head.weight";
\* after a successful extraction every kept name is stored, a prefixed one
\* under "model." followed by that remainder and "lm_head.weight" under its
\* own name, and nothing else is stored.
C1_FilterAndRename ==
  /\ \A n \in FilteredNames :
       n \in Range(text_weight_names) <=>
         \/ \E rest \in Suffixes(n) : n = LANGUAGE_MODEL_PREFIX \o rest
         \/ n = LM_HEAD_WEIGHT
  /\ phase = 3 =>
       /\ \A n \in Range(text_weight_names) :
            \E e \in Range(all_text_weights) :
              /\ e.tensor.source = n
              /\ \A rest \in Suffixes(n) :
                   n = LANGUAGE_MODEL_PREFIX \o rest =>
                     e.name = MODEL_PREFIX \o rest
              /\ n = LM_HEAD_WEIGHT => e.name = n
       /\ \A e \in Range(all_text_weights) :
            e.tensor.source \in Range(text_weight_names)

\* a finished extraction that met a prefixed name, the exception name and a
\* name with the prefix inside
C1_Witness ==
  /\ phase = 3
  /\ LM_HEAD_WEIGHT \in Range(text_weight_names)
  /\ <<"model", Dot, "language_model", Dot, "norm", Dot, "weight">>
       \in Range(text_weight_names)
  /\ <<"visual", Dot, "model", Dot, "language_model", Dot, "weight">>
       \in Range(MapKeys(weight_map))

\* C2: no store into the collection overwrites an entry: while the tensors
\* are read the collection has one entry for each tensor stored so far, and
\* after a successful extraction it has as many entries as there are kept
\* names, each kept name being the source of one of them.
C2_RenameInjective ==
  /\ pc \in {"shard_loop", "get_tensor", "close_shard"} =>
       Len(all_text_weights) = StoredSoFar
  /\ phase = 3 =>
       /\ Len(all_text_weights) = Len(text_weight_names)
       /\ \A n \in Range(text_weight_names) :
            \E e \in Range(all_text_weights) : e.tensor.source = n
       /\ \A i, j \in 1..Len(all_text_weights) :
            all_text_weights[i].name = all_text_weights[j].name => i = j

\* a finished extraction of "model.language_model.lm_head.weight" and
\* "lm_head.weight"
C2_Witness ==
  /\ phase = 3
  /\ LM_HEAD_WEIGHT \in Range(text_weight_names)
  /\ <<"model", Dot, "language_model", Dot, "lm_head", Dot, "weight">>
       \in Range(text_weight_names)
  /\ Len(all_text_weights) = 2

\* C3: a run that fails in phase 2 or 3 leaves no output directory or a
\* complete one.
C3_NoPartialOutput ==
  (pc = "done" /\ status = 1 /\ phase \in {2, 3}) =>
    (~outExists \/ Artifacts \subseteq DOMAIN outFiles)

C5_ShardHandles ==
  /\ \A s \in Shards :
       /\ opens[s] <= 1
       /\ closes[s] <= opens[s]
       /\ opens[s] > closes[s] =>
            /\ pc \in {"get_tensor", "close_shard"}
            /\ weights_by_shard[si].shard = s
  /\ (phase = 3 \/ pc = "done") => \A s \in Shards : closes[s] = opens[s]
  /\ phase = 3 =>
       \A s \in Shards :
         opens[s] = IF \E n \in Range(text_weight_names) :
                         ShardOf(weight_map, n) = s
                      THEN 1 ELSE 0

\* the read of a tensor of the second shard failed after two tensors of the
\* first shard were read
C5_Witness ==
  /\ pc = "done"
  /\ error = "SafetensorError"
  /\ si = 2
  /\ Len(weights_by_shard[1].names) = 2
  /\ \A s \in Shards : opens[s] = 1 /\ closes[s] = 1

\* C6: of two entries of the collection, the earlier one comes from the
\* shard whose first kept tensor is earlier in the weight map or, when both
\* come from one shard, from the earlier name of the weight map.
C6_InsertionOrder ==
  \A i, j \in 1..Len(all_text_weights) :
    i < j =>
      LET a == all_text_weights[i].tensor
          b == all_text_weights[j].tensor
      IN IF a.shard = b.shard
           THEN IndexPos(a.source) < IndexPos(b.source)
           ELSE FirstKept(a.shard) < FirstKept(b.shard)

\* a finished extraction of a weight map that alternates between two shards
C6_Witness ==
  /\ phase = 3
  /\ Len(all_text_weights) = 3
  /\ weight_map[1][2] # weight_map[2][2]
  /\ weight_map[1][2] = weight_map[3][2]
  /\ all_text_weights[2].tensor.source = weight_map[3][1]

\* C7: when an entry of the weight map, kept or not, names a shard file that
\* is absent, extraction does not complete.
C7_EveryShardResolves ==
  (\E i \in 1..Len(weight_map) : ~shardFiles[weight_map[i][2]].exists) =>
    phase # 3

\* C8: when the manifest has no "weight_map" key, reading the index fails:
\* the weights are not filtered and no checkpoint is saved.
C8_MissingWeightMapFails ==
  (indexFile.kind = "doc" /\ "weight_map" \notin DOMAIN indexFile.doc) =>
    (pc \notin {"filter", "group", "shard_loop"} /\ phase # 3)

\* the 24 keys of the dict literal of create_text_config
SchemaKeys ==
  {"architectures", "attention_bias", "attention_dropout", "bos_token_id",
   "eos_token_id", "head_dim", "hidden_act", "hidden_size",
   "initializer_range", "intermediate_size", "max_position_embeddings",
   "model_type", "num_attention_heads", "num_hidden_layers",
   "num_key_value_heads", "rms_norm_eps", "rope_scaling", "rope_theta",
   "tie_word_embeddings", "torch_dtype", "transformers_version", "use_cache",
   "vocab_size", "use_sliding_window"}

\* C9: the keys of a derived configuration are the 24 keys of the schema.
C9_SchemaKeySet ==
  phase >= 2 => (DOMAIN config = SchemaKeys /\ Cardinality(DOMAIN config) = 24)

\* a configuration derived from a partial sub-document with a key that is
\* not in the schema
C9_Witness ==
  /\ phase >= 2
  /\ "text_config" \in DOMAIN vlConfigFile.doc
  /\ vlConfigFile.doc["text_config"].py = "dict"
  /\ DOMAIN vlConfigFile.doc["text_config"].items = {"dtype", "rope_theta"}

\* C10: the fixed fields of a derived configuration have their fixed values.
C10_FixedFields ==
  phase >= 2 =>
    /\ config["tie_word_embeddings"] = FALSE
    /\ config["use_sliding_window"] = FALSE
    /\ config["model_type"] = "qwen3"
    /\ config["architectures"] = <<"Qwen3ForCausalLM">>
    /\ config["torch_dtype"] = "bfloat16"

\* a configuration derived from a sub-document that ties the embeddings and
\* uses a sliding window
C10_Witness ==
  /\ phase >= 2
  /\ "text_config" \in DOMAIN vlConfigFile.doc
  /\ vlConfigFile.doc["text_config"].py = "dict"
  /\ LET t == vlConfigFile.doc["text_config"].items
     IN /\ DOMAIN t = {"tie_word_embeddings", "use_sliding_window"}
        /\ t["tie_word_embeddings"] = TRUE
        /\ t["use_sliding_window"] = TRUE

====
